---- MODULE Spec2Model ----
(***************************************************************************)
(* A model of the qa-testing-portfolio exercises:                          *)
(*   - the toy functions of jan-8/exercises.test.tsx (subtract, setAge,    *)
(*     fetchUser, performLogin, Counter) and the lifecycle hook on score,  *)
(*   - calculateTotal of jan-7 (cart.ts, known only through its test),     *)
(*   - the LoginPage page object and the Playwright lessons of jan-9.      *)
(* Each part has its own next-state relation over the shared variables.    *)
(***************************************************************************)
EXTENDS Integers, Sequences, FiniteSets, TLC

VARIABLES
    last,            \* the last call of a pure function: its arguments and outcome
    mockLoginApi,    \* vi.fn(): the recorded calls, a sequence of <<u, p>>
    myCredentials,   \* the credentials record handed to performLogin
    nPerformLogin,   \* how many times performLogin was called on this mock
    score,           \* the module-level `let score`
    vphase,          \* vitest runner: "idle", "beforeEach" or "body"
    vcur,            \* the test the runner is executing
    vlog,            \* the finished tests, in execution order
    counters,        \* the rendered Counter components, by instance
    promises,        \* the promises returned by fetchUser, by slot
    lesson,          \* the Playwright test being run ("none" before one starts)
    body,            \* its body: the sequence of operations it performs
    pc,              \* the next operation of the body
    waiting,         \* the body is suspended at an await
    status,          \* "idle", "running", "returned" or "failed"
    pending,         \* the library promises started and not yet settled
    call,            \* the LoginPage method invocation in progress, or the last one
    pageLog,         \* the page actions of that invocation: start, done, fail
    error,           \* the error the test body received, "none" if none
    handle,          \* the page a LoginPage wraps ("none" before construction)
    routes,          \* the route handlers installed on the page, oldest first
    requests,        \* the requests the page has issued, each with who answered
    navigated,       \* the page has started a navigation
    authFile,        \* the file auth.json
    contexts         \* the browser contexts made by browser.newContext, by name

fnVars == <<last, mockLoginApi, myCredentials, nPerformLogin>>
vitestVars == <<score, vphase, vcur, vlog>>
counterVars == <<counters>>
fetchVars == <<promises>>
envVars == <<routes, requests, navigated, authFile, contexts>>
pwVars == <<lesson, body, pc, waiting, status, pending, call, pageLog, error, handle,
            envVars>>
vars == <<fnVars, vitestVars, counterVars, fetchVars, pwVars>>

notFnVars == <<vitestVars, counterVars, fetchVars, pwVars>>
notVitestVars == <<fnVars, counterVars, fetchVars, pwVars>>
notCounterVars == <<fnVars, vitestVars, fetchVars, pwVars>>
notFetchVars == <<fnVars, vitestVars, counterVars, pwVars>>
notPwVars == <<fnVars, vitestVars, counterVars, fetchVars>>

----------------------------------------------------------------------------
(* Bounds of the model *)

MaxInt == 5
MaxAge == 20
MaxPrice == 3
MaxQuantity == 3
MaxMockCalls == 3
MaxRuns == 3
NumCounters == 2
MaxClicks == 3
MaxPromises == 3
MaxUserId == 2
MaxClientCalls == 2

(* Literals of the tests *)
TestPrice == 100000

Ints == (0 - MaxInt)..MaxInt
Ages == (0 - MaxAge)..MaxAge
Prices == (0..MaxPrice) \cup {TestPrice}
Quantities == 0..MaxQuantity
Usernames == {"jason", "admin"}
Passwords == {"123456", "guest"}
CounterIds == 1..NumCounters
PromiseIds == 1..MaxPromises
UserIds == 0..MaxUserId

----------------------------------------------------------------------------
(* jan-8/exercises.test.tsx: the pure functions *)

subtractSwapped(a, b) == b - a

subtract(a, b) == a - b

Thrown(message) == [kind |-> "throw", message |-> message]

Returned(value) == [kind |-> "return", value |-> value]

setAgeAdultCheckFirst(age) ==
    IF age < 18 THEN Thrown("You are not an adult yet!")
    ELSE IF age < 0 THEN Thrown("Age cannot be negative!")
    ELSE Returned("Your age is " \o ToString(age))

setAge(age) ==
    IF age < 0 THEN Thrown("Age cannot be negative!")
    ELSE IF age < 18 THEN Thrown("You are not an adult yet!")
    ELSE Returned("Your age is " \o ToString(age))

calculateTotalSum(price, quantity) == price + quantity

calculateTotal(price, quantity) == price * quantity

(* performLogin calls loginApi once; the result is the mock's calls and the
   credentials record as they are after the call. *)
performLoginSwapped(credentials, calls) ==
    [calls |-> Append(calls, <<credentials.password, credentials.username>>),
     credentials |-> credentials]

performLogin(credentials, calls) ==
    [calls |-> Append(calls, <<credentials.username, credentials.password>>),
     credentials |-> credentials]

CallSubtract ==
    /\ \E a \in Ints, b \in Ints :
         last' = [fn |-> "subtract", a |-> a, b |-> b, out |-> subtract(a, b)]
    /\ UNCHANGED <<mockLoginApi, myCredentials, nPerformLogin, notFnVars>>

CallSetAge ==
    /\ \E age \in Ages :
         last' = [fn |-> "setAge", age |-> age, out |-> setAge(age)]
    /\ UNCHANGED <<mockLoginApi, myCredentials, nPerformLogin, notFnVars>>

CallCalculateTotal ==
    /\ \E price \in Prices, quantity \in Quantities :
         last' = [fn |-> "calculateTotal", price |-> price, quantity |-> quantity,
                  out |-> calculateTotal(price, quantity)]
    /\ UNCHANGED <<mockLoginApi, myCredentials, nPerformLogin, notFnVars>>

(* const mockLoginApi = vi.fn(); const myCredentials = {...} *)
NewMock ==
    /\ \E u \in Usernames, p \in Passwords :
         myCredentials' = [username |-> u, password |-> p]
    /\ mockLoginApi' = <<>>
    /\ nPerformLogin' = 0
    /\ UNCHANGED <<last, notFnVars>>

CallPerformLogin ==
    /\ myCredentials # [username |-> "", password |-> ""]
    /\ Len(mockLoginApi) < MaxMockCalls
    /\ LET r == performLogin(myCredentials, mockLoginApi) IN
         /\ mockLoginApi' = r.calls
         /\ myCredentials' = r.credentials
    /\ nPerformLogin' = nPerformLogin + 1
    /\ last' = [fn |-> "performLogin", credentials |-> myCredentials]
    /\ UNCHANGED notFnVars

----------------------------------------------------------------------------
(* jan-8/exercises.test.tsx: the lifecycle hook and the tests that use score *)

TestIncrement == "test case 1: increment score"
TestCheckReset == "test case 2: check reset score"

VTests == {"subtract function > should subtract two numbers correctly",
           "user object > should have the correct name",
           TestIncrement,
           TestCheckReset,
           "Example of toBeTruthy",
           "Async testing (async await) > should return user when found",
           "Counter Component > should display 0 initially"}

beforeEachNoReset(s) == s

(* beforeEach(() => { score = 10; }) *)
beforeEach(s) == 10

(* The module-level score after the body of test t, started with score s.
   "Example of toBeTruthy" declares its own const score and leaves the
   module-level one alone. *)
TestBody(t, s) == IF t = TestIncrement THEN s + 5 ELSE s

(* The test's expectation on score, evaluated after its body. *)
TestExpect(t, s) ==
    IF t = TestIncrement THEN s = 15
    ELSE IF t = TestCheckReset THEN s = 10
    ELSE TRUE

(* The runner takes any test of the file next: any order, any subset, and
   (with retry) the same test again. *)
StartTest ==
    /\ vphase = "idle"
    /\ Len(vlog) < MaxRuns
    /\ \E t \in VTests : vcur' = t
    /\ vphase' = "beforeEach"
    /\ UNCHANGED <<score, vlog, notVitestVars>>

RunBeforeEach ==
    /\ vphase = "beforeEach"
    /\ score' = beforeEach(score)
    /\ vphase' = "body"
    /\ UNCHANGED <<vcur, vlog, notVitestVars>>

RunTestBody ==
    /\ vphase = "body"
    /\ score' = TestBody(vcur, score)
    /\ vlog' = Append(vlog, [test |-> vcur, started |-> score, seen |-> score',
                             pass |-> TestExpect(vcur, score')])
    /\ vphase' = "idle"
    /\ UNCHANGED <<vcur, notVitestVars>>

----------------------------------------------------------------------------
(* jan-8/exercises.test.tsx: the Counter component *)

CounterDecrements(count) ==
    [text |-> ToString(count), onClick |-> count - 1]

CounterShowsNext(count) ==
    [text |-> ToString(count + 1), onClick |-> count + 1]

(* One evaluation of the component function with hook state count: the text
   of the h1 and the value the button's onClick hands to setCount. *)
Counter(count) ==
    [text |-> ToString(count), onClick |-> count + 1]

Unmounted ==
    [mounted |-> FALSE, state |-> 0, queue |-> <<>>, text |-> "",
     onClick |-> 0, clicks |-> 0, fresh |-> TRUE]

(* render(<Counter />): a new instance, useState(0), first commit *)
RenderCounter(i) ==
    /\ ~counters[i].mounted
    /\ LET out == Counter(0) IN
         counters' = [counters EXCEPT ![i] =
             [mounted |-> TRUE, state |-> 0, queue |-> <<>>, text |-> out.text,
              onClick |-> out.onClick, clicks |-> 0, fresh |-> TRUE]]
    /\ UNCHANGED notCounterVars

(* A click on Increment runs the onClick of the committed render:
   setCount(count + 1) queues the value that render computed.  fresh records
   that every click so far found the re-render of the click before it done. *)
ClickIncrement(i) ==
    /\ counters[i].mounted
    /\ counters[i].clicks < MaxClicks
    /\ counters' = [counters EXCEPT ![i].queue = Append(@, counters[i].onClick),
                                    ![i].clicks = @ + 1,
                                    ![i].fresh = @ /\ counters[i].queue = <<>>]
    /\ UNCHANGED notCounterVars

(* React processes the queued updates (the last value wins), evaluates the
   component again and commits its output. *)
Rerender(i) ==
    /\ counters[i].mounted
    /\ counters[i].queue # <<>>
    /\ LET q == counters[i].queue
           count == q[Len(q)]
           out == Counter(count)
       IN counters' = [counters EXCEPT ![i].state = count,
                                       ![i].queue = <<>>,
                                       ![i].text = out.text,
                                       ![i].onClick = out.onClick]
    /\ UNCHANGED notCounterVars

(* The component is unmounted (cleanup after a test). *)
Cleanup(i) ==
    /\ counters[i].mounted
    /\ counters' = [counters EXCEPT ![i] = Unmounted]
    /\ UNCHANGED notCounterVars

----------------------------------------------------------------------------
(* jan-8/exercises.test.tsx: fetchUser *)

TimerCallbackAlwaysResolves(id) ==
    [state |-> "fulfilled", value |-> [id |-> id, name |-> "Jason"]]

(* The setTimeout callback: how it settles the promise. *)
TimerCallback(id) ==
    IF id = 1
    THEN [state |-> "fulfilled", value |-> [id |-> id, name |-> "Jason"]]
    ELSE [state |-> "rejected", value |-> [message |-> "User not found"]]

NoPromise == [state |-> "none", id |-> 0, timer |-> "none", value |-> [none |-> TRUE]]

(* fetchUser(id): a new pending promise and one timer armed for it *)
FetchUser(p) ==
    /\ promises[p].state = "none"
    /\ \E id \in UserIds :
         promises' = [promises EXCEPT ![p] =
             [state |-> "pending", id |-> id, timer |-> "armed",
              value |-> [none |-> TRUE]]]
    /\ UNCHANGED notFetchVars

(* The timer fires and runs its callback; a one-shot timer never fires again. *)
TimerFires(p) ==
    /\ promises[p].timer = "armed"
    /\ LET r == TimerCallback(promises[p].id) IN
         promises' = [promises EXCEPT ![p].timer = "fired",
                                      ![p].state = IF promises[p].state = "pending"
                                                   THEN r.state ELSE @,
                                      ![p].value = IF promises[p].state = "pending"
                                                   THEN r.value ELSE @]
    /\ UNCHANGED notFetchVars

----------------------------------------------------------------------------
(* jan-9/page-objects/login.page.ts: the LoginPage page object *)

(* One asynchronous operation of the browser-automation library; awaited
   says whether the code awaits the promise where it starts it. *)
Step(op, target, value, awaited) ==
    [op |-> op, target |-> target, value |-> value, awaited |-> awaited]

Await(op, target, value) == Step(op, target, value, TRUE)

NoAwait(op, target, value) == Step(op, target, value, FALSE)

(* async goto() *)
goto == << Await("page.goto", "/sign-in", "") >>

loginClickFirst(email, pass) ==
    << Await("click", "Sign In", ""),
       Await("fill", "you@example.com", email),
       Await("fill", "Your password", pass) >>

(* async login(email, pass) *)
login(email, pass) ==
    << Await("fill", "you@example.com", email),
       Await("fill", "Your password", pass),
       Await("click", "Sign In", "") >>

(* async verifyErrorIsVisible() *)
verifyErrorIsVisible == << Await("expect.toBeVisible", "/Invalid/i", "") >>

LoginPageMethods ==
    {"LoginPage.goto", "LoginPage.login", "LoginPage.verifyErrorIsVisible"}

MethodBody(c) ==
    CASE c.method = "LoginPage.goto" -> goto
      [] c.method = "LoginPage.login" -> login(c.email, c.pass)
      [] c.method = "LoginPage.verifyErrorIsVisible" -> verifyErrorIsVisible
      [] OTHER -> <<>>

OnActionFailureSwallowed(c, e) == [c EXCEPT !.mpc = @ + 1]

(* A page action awaited in a method rejects with e: no method has a
   try/catch, so the method's own promise rejects with e there and then. *)
OnActionFailure(c, e) == [c EXCEPT !.state = "rejected", !.error = e]

NoCall ==
    [method |-> "none", email |-> "", pass |-> "", mpc |-> 1, state |-> "idle",
     error |-> "none", self |-> "none"]

PageErrors == {"TimeoutError", "TargetClosedError"}

----------------------------------------------------------------------------
(* jan-9/playwright-exercises.spec.ts: the test bodies *)

loginData ==
    << [user |-> "user_1@test.com", pass |-> "123456", desc |-> "Ordinary user"],
       [user |-> "admin@test.com", pass |-> "admin123", desc |-> "Admin User"],
       [user |-> "guest@test.com", pass |-> "guest", desc |-> "Guest user"] >>

Lesson12(data) ==
    << Await("page.goto", "/sign-in", ""),
       Await("fill", "you@example.com", data.user),
       Await("fill", "Your password", data.pass),
       Await("click", "Sign In", ""),
       Await("expect.toBeVisible", "/Invalid/i", "") >>

Lesson12Title(data) == "Lesson 12: Parameterized Test - " \o data.desc

Lesson12Titles == {Lesson12Title(loginData[i]) : i \in 1..Len(loginData)}

Lesson12Data(l) ==
    loginData[CHOOSE i \in 1..Len(loginData) : Lesson12Title(loginData[i]) = l]

Lessons ==
    {"Lesson 1", "Lesson 2", "Lesson 3", "Lesson 4", "Lesson 5", "Lesson 6",
     "Lesson 7", "Lesson 8", "Lesson 9", "Lesson 10", "Lesson 11", "Lesson 13",
     "Lesson 14", "Lesson 15", "Lesson 16", "Lesson 17", "Lesson 18",
     "Lesson 19", "Lesson 20"} \cup Lesson12Titles

GotoOnly(path) == << Await("page.goto", path, "") >>

Lesson6RouteAfterGoto ==
    << Await("page.goto", "/sign-in", ""),
       Await("page.route", "**/api/auth/callback*", "401"),
       Await("fill", "you@example.com", "test@mock.com"),
       Await("fill", "Your password", "any-password"),
       Await("click", "Sign In", ""),
       Await("expect.toBeVisible", "/Invalid|Mocked/i", "") >>

Lesson6 ==
    << Await("page.route", "**/api/auth/callback*", "401"),
       Await("page.goto", "/sign-in", ""),
       Await("fill", "you@example.com", "test@mock.com"),
       Await("fill", "Your password", "any-password"),
       Await("click", "Sign In", ""),
       Await("expect.toBeVisible", "/Invalid|Mocked/i", "") >>

(* The handler given to page.route: route.fulfill({status, contentType,
   body: JSON.stringify({message})}) *)
RouteHandler(pattern) ==
    [status |-> 401, contentType |-> "application/json",
     body |-> "{\"message\":\"Mocked Unauthorized Error\"}"]

Lesson9ContextBeforeSave ==
    << Await("browser.newContext", "context", ""),
       Await("context.newPage", "context", ""),
       Await("page.goto", "/sign-in", ""),
       Await("browser.newContext", "adminContext", "auth.json"),
       Await("context.storageState", "context", "auth.json"),
       Await("context.newPage", "adminContext", "") >>

Lesson9 ==
    << Await("browser.newContext", "context", ""),
       Await("context.newPage", "context", ""),
       Await("page.goto", "/sign-in", ""),
       Await("context.storageState", "context", "auth.json"),
       Await("browser.newContext", "adminContext", "auth.json"),
       Await("context.newPage", "adminContext", "") >>

(* The asynchronous operations of each test body, in program order. *)
LessonBody(l) ==
    CASE l = "Lesson 1" ->
           << Await("page.goto", "/sign-in", ""),
              Await("expect.toBeVisible", "button /Sign in/i", ""),
              Await("expect.toBeVisible", "you@example.com", ""),
              Await("expect.toBeVisible", "/Or continue with/i", "") >>
      [] l = "Lesson 2" ->
           << Await("page.goto", "/sign-in", ""),
              Await("fill", "you@example.com", "test@example.com"),
              Await("fill", "Your password", "wrongpassword123"),
              Await("click", "Sign In", ""),
              Await("expect.toBeVisible", "/Invalid/i", "") >>
      [] l = "Lesson 3" ->
           << Await("page.goto", "/sign-in", ""),
              Await("fill", "you@example.com", "hoc-playwright@gmail.com"),
              Await("expect.toHaveValue", "you@example.com", "hoc-playwright@gmail.com"),
              Await("expect.not.toBeVisible", "/Invalid/i", ""),
              Await("expect.toBeEnabled", "button Sign In", "") >>
      [] l = "Lesson 4" ->
           << Await("page.goto", "/sign-in", ""),
              Await("expect.toBeVisible", "div.w-full.max-w-sm button /Google/i", ""),
              Await("expect.toBeVisible", "button /^Sign In$/i", ""),
              Await("expect.toBeVisible", "button first", ""),
              Await("expect.toBeVisible", "button last", "") >>
      [] l = "Lesson 5" ->
           << Step("new LoginPage", "page", "", FALSE),
              Await("LoginPage.goto", "", ""),
              Await("LoginPage.login", "pom-user@test.com", "wrong-pass"),
              Await("LoginPage.verifyErrorIsVisible", "", "") >>
      [] l = "Lesson 6" -> Lesson6
      [] l = "Lesson 7" ->
           << Await("LoginPage.goto", "", ""),
              Await("LoginPage.login", "fixture-user@test.com", "password123"),
              Await("LoginPage.verifyErrorIsVisible", "", "") >>
      [] l = "Lesson 8" ->
           << Await("page.goto", "/sign-in", ""),
              Await("expect.toHaveScreenshot", "page", "login-page.png") >>
      [] l = "Lesson 9" -> Lesson9
      [] l = "Lesson 10" -> GotoOnly("/")
      [] l = "Lesson 11" ->
           << Await("request.post", "/api/auth/register", "password123"),
              Await("page.goto", "/sign-in", "") >>
      [] l \in Lesson12Titles -> Lesson12(Lesson12Data(l))
      [] l = "Lesson 13" ->
           << Await("page.goto", "/sign-in", ""),
              NoAwait("context.waitForEvent", "page", "") >>
      [] l = "Lesson 14" ->
           << Await("page.goto", "/sign-in", ""),
              Await("expect.toBeVisible", "button /Sign In/i", ""),
              Await("expect.toBeEnabled", "button /Sign In/i", "") >>
      [] l = "Lesson 15" -> GotoOnly("/")
      [] l = "Lesson 16" -> GotoOnly("/")
      [] l = "Lesson 17" ->
           << Await("page.clock.install", "2026-01-01T10:00:00Z", ""),
              Await("page.goto", "/", ""),
              Await("page.clock.fastForward", "02:00:00", "") >>
      [] l = "Lesson 18" -> GotoOnly("/")
      [] l = "Lesson 19" -> GotoOnly("/")
      [] l = "Lesson 20" -> GotoOnly("/sign-in")

(* The loginPage fixture of base.extend: new LoginPage(page) before the body. *)
FixtureHandle(l) == IF l = "Lesson 7" THEN "page" ELSE "none"

(* Callers of a LoginPage other than the lessons: any short sequence of its
   methods with any arguments. *)
ClientEmails == {"pom-user@test.com", "fixture-user@test.com"}
ClientPasswords == {"wrong-pass", "password123"}

ClientCalls ==
    {Await("LoginPage.goto", "", ""), Await("LoginPage.verifyErrorIsVisible", "", "")}
    \cup {Await("LoginPage.login", e, p) : e \in ClientEmails, p \in ClientPasswords}

----------------------------------------------------------------------------
(* The browser the examples drive: routes, requests, contexts, auth.json *)

(* The requests a page of the application may issue: the path after the
   origin, by segment, and the query string. *)
Url(path, query) == [path |-> path, query |-> query]

Urls ==
    {Url(<<"sign-in">>, ""),
     Url(<<"api", "auth", "callback">>, ""),
     Url(<<"api", "auth", "callback">>, "?csrf=1"),
     Url(<<"api", "auth", "callback", "credentials">>, "")}

(* The glob of a route against a request: ** spans segments, a * does not
   cross a "/", so the pattern ends in the segment that starts "callback". *)
GlobMatch(pattern, url) ==
    /\ pattern = "**/api/auth/callback*"
    /\ Len(url.path) >= 3
    /\ SubSeq(url.path, Len(url.path) - 2, Len(url.path)) = <<"api", "auth", "callback">>

Matching(url) == {k \in 1..Len(routes) : GlobMatch(routes[k].pattern, url)}

(* A request is answered by the newest matching route, else by the backend. *)
Serve(url) ==
    IF Matching(url) # {}
    THEN LET k == CHOOSE m \in Matching(url) : \A n \in Matching(url) : n <= m
         IN [url |-> url, by |-> "route", status |-> routes[k].response.status,
             body |-> routes[k].response.body]
    ELSE [url |-> url, by |-> "backend", status |-> 200, body |-> "backend"]

ContextNames == {"context", "adminContext"}

StorageStates == {"empty", "session-A", "session-B"}

NoContext ==
    [created |-> FALSE, hasPage |-> FALSE, state |-> "empty", initial |-> "empty",
     source |-> "none", saved |-> "none"]

NoFile == [exists |-> FALSE, content |-> "empty", writtenBy |-> "none"]

(* An auth.json left behind by an earlier run. *)
StaleFile == [exists |-> TRUE, content |-> "session-B", writtenBy |-> "earlier run"]

(* browser.newContext(): an empty context; with {storageState: file}, a
   context that starts with the state the file holds. *)
NewContext(step) ==
    IF step.value = ""
    THEN [created |-> TRUE, hasPage |-> FALSE, state |-> "empty",
          initial |-> "empty", source |-> "none", saved |-> "none"]
    ELSE [created |-> TRUE, hasPage |-> FALSE, state |-> authFile.content,
          initial |-> authFile.content, source |-> authFile.writtenBy,
          saved |-> "none"]

(* An operation can succeed only if what it reads is there. *)
CanFulfil(step) ==
    /\ (step.op = "browser.newContext" /\ step.value # "") => authFile.exists
    /\ step.op \in {"context.newPage", "context.storageState"} =>
           contexts[step.target].created

(* What a fulfilled operation has done to the browser and the file system. *)
RoutesAfter(step) ==
    IF step.op = "page.route"
    THEN Append(routes, [pattern |-> step.target, response |-> RouteHandler(step.target)])
    ELSE routes

AuthFileAfter(step) ==
    IF step.op = "context.storageState"
    THEN [exists |-> TRUE, content |-> contexts[step.target].state,
          writtenBy |-> lesson]
    ELSE authFile

ContextsAfter(step) ==
    CASE step.op = "browser.newContext" ->
           [contexts EXCEPT ![step.target] = NewContext(step)]
      [] step.op = "context.newPage" ->
           [contexts EXCEPT ![step.target].hasPage = TRUE]
      [] step.op = "context.storageState" ->
           [contexts EXCEPT ![step.target].saved = contexts[step.target].state]
      [] OTHER -> contexts

(* The runner starts a test: the fixtures are set up and the body begins;
   auth.json is absent or left over from an earlier run. *)
BeginLesson ==
    /\ status = "idle"
    /\ \E l \in Lessons :
         /\ lesson' = l
         /\ body' = LessonBody(l)
         /\ handle' = FixtureHandle(l)
    /\ status' = "running"
    /\ authFile' \in {NoFile, StaleFile}
    /\ UNCHANGED <<pc, waiting, pending, call, pageLog, error, routes, requests,
                   navigated, contexts, notPwVars>>

(* A caller that holds a LoginPage and calls its methods. *)
BeginClient ==
    /\ status = "idle"
    /\ \E n \in 1..MaxClientCalls : \E script \in [1..n -> ClientCalls] :
         body' = script
    /\ lesson' = "client"
    /\ handle' = "page"
    /\ status' = "running"
    /\ UNCHANGED <<pc, waiting, pending, call, pageLog, error, envVars, notPwVars>>

AtStep == status = "running" /\ ~waiting /\ pc <= Len(body)

MethodPending == {p \in pending : p.by = "method"}

(* new LoginPage(page): the constructor stores the page *)
Construct ==
    /\ AtStep
    /\ body[pc].op = "new LoginPage"
    /\ handle' = body[pc].target
    /\ pc' = pc + 1
    /\ UNCHANGED <<lesson, body, waiting, status, pending, call, pageLog, error,
                   envVars, notPwVars>>

(* await loginPage.<method>(...): the method starts and the body waits *)
CallMethod ==
    /\ AtStep
    /\ body[pc].op \in LoginPageMethods
    /\ call' = [method |-> body[pc].op, email |-> body[pc].target,
                pass |-> body[pc].value, mpc |-> 1, state |-> "running",
                error |-> "none", self |-> handle]
    /\ pageLog' = <<>>
    /\ waiting' = body[pc].awaited
    /\ UNCHANGED <<lesson, body, pc, status, pending, error, handle, envVars, notPwVars>>

(* The body starts a library operation; it waits for it if it awaits it,
   and goes on to the next statement if it only keeps the promise. *)
StartOperation ==
    /\ AtStep
    /\ body[pc].op \notin LoginPageMethods \cup {"new LoginPage"}
    /\ pending' = pending \cup {[by |-> "test", at |-> pc, step |-> body[pc]]}
    /\ waiting' = body[pc].awaited
    /\ pc' = IF body[pc].awaited THEN pc ELSE pc + 1
    /\ navigated' = (navigated \/ body[pc].op = "page.goto")
    /\ UNCHANGED <<lesson, body, status, call, pageLog, error, handle, routes,
                   requests, authFile, contexts, notPwVars>>

AwaitedByBody(p) == waiting /\ status = "running" /\ p.by = "test" /\ p.at = pc

(* The library fulfils a promise the body started. *)
Fulfil ==
    \E p \in pending :
        /\ p.by = "test"
        /\ CanFulfil(p.step)
        /\ pending' = pending \ {p}
        /\ waiting' = IF AwaitedByBody(p) THEN FALSE ELSE waiting
        /\ pc' = IF AwaitedByBody(p) THEN pc + 1 ELSE pc
        /\ routes' = RoutesAfter(p.step)
        /\ authFile' = AuthFileAfter(p.step)
        /\ contexts' = ContextsAfter(p.step)
        /\ UNCHANGED <<lesson, body, status, call, pageLog, error, handle,
                       requests, navigated, notPwVars>>

(* The library rejects a promise the body started: an awaited one throws in
   the body, which fails the test. *)
Reject ==
    \E p \in pending : \E e \in PageErrors :
        /\ p.by = "test"
        /\ pending' = pending \ {p}
        /\ waiting' = IF AwaitedByBody(p) THEN FALSE ELSE waiting
        /\ status' = IF AwaitedByBody(p) THEN "failed" ELSE status
        /\ error' = IF AwaitedByBody(p) THEN e ELSE error
        /\ UNCHANGED <<lesson, body, pc, call, pageLog, handle, envVars, notPwVars>>

(* The page, once it navigates, issues requests while the test runs. *)
BrowserRequest ==
    /\ status = "running"
    /\ navigated
    /\ \E url \in Urls : requests' = requests \cup {Serve(url)}
    /\ UNCHANGED <<lesson, body, pc, waiting, status, pending, call, pageLog,
                   error, handle, routes, navigated, authFile, contexts, notPwVars>>

(* The site changes the cookies or local storage of a context with a page. *)
StorageChange ==
    /\ status = "running"
    /\ \E c \in ContextNames : \E v \in StorageStates :
         /\ contexts[c].hasPage
         /\ v # contexts[c].state
         /\ contexts' = [contexts EXCEPT ![c].state = v]
    /\ UNCHANGED <<lesson, body, pc, waiting, status, pending, call, pageLog,
                   error, handle, routes, requests, navigated, authFile, notPwVars>>

(* The body runs off its end: the test function returns. *)
ReturnBody ==
    /\ status = "running"
    /\ ~waiting
    /\ pc > Len(body)
    /\ status' = "returned"
    /\ UNCHANGED <<lesson, body, pc, waiting, pending, call, pageLog, error,
                   handle, envVars, notPwVars>>

Event(ev, step, e) ==
    [ev |-> ev, op |-> step.op, target |-> step.target, value |-> step.value,
     error |-> e]

(* A method starts its next page action and awaits it. *)
MethodStep ==
    /\ call.state = "running"
    /\ MethodPending = {}
    /\ call.mpc <= Len(MethodBody(call))
    /\ LET step == MethodBody(call)[call.mpc] IN
         /\ pending' = pending \cup {[by |-> "method", at |-> call.mpc, step |-> step]}
         /\ pageLog' = Append(pageLog, Event("start", step, "none"))
         /\ navigated' = (navigated \/ step.op = "page.goto")
    /\ UNCHANGED <<lesson, body, pc, waiting, status, call, error, handle,
                   routes, requests, authFile, contexts, notPwVars>>

PageActionDone ==
    \E p \in MethodPending :
        /\ pending' = pending \ {p}
        /\ pageLog' = Append(pageLog, Event("done", p.step, "none"))
        /\ call' = [call EXCEPT !.mpc = @ + 1]
        /\ UNCHANGED <<lesson, body, pc, waiting, status, error, handle, envVars, notPwVars>>

PageActionFail ==
    \E p \in MethodPending : \E e \in PageErrors :
        /\ pending' = pending \ {p}
        /\ pageLog' = Append(pageLog, Event("fail", p.step, e))
        /\ call' = OnActionFailure(call, e)
        /\ UNCHANGED <<lesson, body, pc, waiting, status, error, handle, envVars, notPwVars>>

(* The method runs off its end: its promise is fulfilled. *)
MethodReturn ==
    /\ call.state = "running"
    /\ MethodPending = {}
    /\ call.mpc > Len(MethodBody(call))
    /\ call' = [call EXCEPT !.state = "fulfilled"]
    /\ UNCHANGED <<lesson, body, pc, waiting, status, pending, pageLog, error,
                   handle, envVars, notPwVars>>

(* The awaiting body resumes after the method. *)
ResumeAfterMethod ==
    /\ call.state = "fulfilled"
    /\ call' = [call EXCEPT !.state = "returned"]
    /\ waiting' = FALSE
    /\ pc' = pc + 1
    /\ UNCHANGED <<lesson, body, status, pending, pageLog, error, handle,
                   envVars, notPwVars>>

(* The await in the body throws what the method rejected with. *)
ThrowFromMethod ==
    /\ call.state = "rejected"
    /\ call' = [call EXCEPT !.state = "thrown"]
    /\ waiting' = FALSE
    /\ status' = "failed"
    /\ error' = call.error
    /\ UNCHANGED <<lesson, body, pc, pending, pageLog, handle, envVars, notPwVars>>

----------------------------------------------------------------------------

Init ==
    /\ last = [fn |-> "none"]
    /\ mockLoginApi = <<>>
    /\ myCredentials = [username |-> "", password |-> ""]
    /\ nPerformLogin = 0
    /\ score = 0
    /\ vphase = "idle"
    /\ vcur = "none"
    /\ vlog = <<>>
    /\ counters = [i \in CounterIds |-> Unmounted]
    /\ promises = [p \in PromiseIds |-> NoPromise]
    /\ lesson = "none"
    /\ body = <<>>
    /\ pc = 1
    /\ waiting = FALSE
    /\ status = "idle"
    /\ pending = {}
    /\ call = NoCall
    /\ pageLog = <<>>
    /\ error = "none"
    /\ handle = "none"
    /\ routes = <<>>
    /\ requests = {}
    /\ navigated = FALSE
    /\ authFile = NoFile
    /\ contexts = [c \in ContextNames |-> NoContext]

NextFn ==
    \/ CallSubtract
    \/ CallSetAge
    \/ CallCalculateTotal
    \/ NewMock
    \/ CallPerformLogin

NextVitest ==
    \/ StartTest
    \/ RunBeforeEach
    \/ RunTestBody

NextCounter ==
    \E i \in CounterIds :
        \/ RenderCounter(i)
        \/ ClickIncrement(i)
        \/ Rerender(i)
        \/ Cleanup(i)

NextFetch ==
    \E p \in PromiseIds :
        \/ FetchUser(p)
        \/ TimerFires(p)

NextPlaywright ==
    \/ BeginLesson
    \/ BeginClient
    \/ Construct
    \/ CallMethod
    \/ StartOperation
    \/ Fulfil
    \/ Reject
    \/ BrowserRequest
    \/ StorageChange
    \/ ReturnBody
    \/ MethodStep
    \/ PageActionDone
    \/ PageActionFail
    \/ MethodReturn
    \/ ResumeAfterMethod
    \/ ThrowFromMethod

SpecFn == Init /\ [][NextFn]_vars

SpecVitest == Init /\ [][NextVitest]_vars

SpecCounter == Init /\ [][NextCounter]_vars

SpecPlaywright == Init /\ [][NextPlaywright]_vars

(* The event loop runs every armed timer's callback eventually. *)
FairSpecFetch ==
    Init /\ [][NextFetch]_vars /\ \A p \in PromiseIds : WF_vars(TimerFires(p))

----------------------------------------------------------------------------
(* Claims about the functions of jan-8 and jan-7 *)

RECURSIVE RepeatedSum(_, _)
RepeatedSum(price, n) == IF n = 0 THEN 0 ELSE price + RepeatedSum(price, n - 1)

(* C2: score is 10 at the start of every test body, and every finished test
   passed, "increment score" having seen 15 and "check reset score" 10,
   whatever tests ran before it and in whatever order. *)
ScoreResetBeforeEveryTest ==
    /\ vphase = "body" => score = 10
    /\ \A i \in 1..Len(vlog) :
         /\ vlog[i].started = 10
         /\ vlog[i].pass
         /\ vlog[i].test = TestIncrement => vlog[i].seen = 15
         /\ vlog[i].test = TestCheckReset => vlog[i].seen = 10

CheckResetAfterIncrement ==
    \E i \in 1..Len(vlog) : \E j \in 1..Len(vlog) :
        /\ i < j
        /\ vlog[i].test = TestIncrement /\ vlog[i].seen = 15
        /\ vlog[j].test = TestCheckReset /\ vlog[j].seen = 10

(* C3: setAge(age) throws "Age cannot be negative!" for age < 0, throws
   "You are not an adult yet!" for 0 <= age < 18, and for age >= 18 throws
   nothing and returns "Your age is <age>". *)
SetAgeOutcomeByRange ==
    last.fn = "setAge" =>
        /\ last.age < 0 =>
             /\ last.out.kind = "throw"
             /\ last.out.message = "Age cannot be negative!"
        /\ (0 <= last.age /\ last.age < 18) =>
             /\ last.out.kind = "throw"
             /\ last.out.message = "You are not an adult yet!"
        /\ last.age >= 18 =>
             /\ last.out.kind = "return"
             /\ last.out.value = "Your age is " \o ToString(last.age)
        /\ last.age = 20 => last.out = Returned("Your age is 20")

SetAgeNegativeThrown ==
    /\ last.fn = "setAge"
    /\ last.age = 0 - 1
    /\ last.out = Thrown("Age cannot be negative!")

(* C4: subtract(a, b) is a - b, negative when a < b; subtract(5, 2) = 3 and
   subtract(2, 5) = -3. *)
SubtractIsDifference ==
    last.fn = "subtract" =>
        /\ last.out + last.b = last.a
        /\ last.a < last.b => last.out < 0
        /\ (last.a = 5 /\ last.b = 2) => last.out = 3
        /\ (last.a = 2 /\ last.b = 5) => last.out = 0 - 3

SubtractNegativeResult ==
    /\ last.fn = "subtract"
    /\ last.a = 2 /\ last.b = 5
    /\ last.out = 0 - 3

(* C6: calculateTotal(price, quantity) is the price added up quantity times,
   the product price x quantity; calculateTotal(100000, 3) = 300000. *)
CalculateTotalIsProduct ==
    last.fn = "calculateTotal" =>
        /\ last.out = RepeatedSum(last.price, last.quantity)
        /\ (last.price = 100000 /\ last.quantity = 3) => last.out = 300000

CalculateTotalOfTest ==
    /\ last.fn = "calculateTotal"
    /\ last.price = TestPrice /\ last.quantity = 3
    /\ last.out = 300000

(* C8: one call of performLogin adds exactly one call to loginApi, with
   credentials.username first and credentials.password second, and leaves
   the credentials record as it was. *)
PerformLoginCallsApiOnce ==
    [][nPerformLogin' = nPerformLogin + 1 =>
          /\ mockLoginApi' = Append(mockLoginApi,
                 <<myCredentials.username, myCredentials.password>>)
          /\ myCredentials' = myCredentials]_vars

PerformLoginCalled ==
    /\ nPerformLogin = 1
    /\ mockLoginApi = << <<"jason", "123456">> >>
    /\ myCredentials = [username |-> "jason", password |-> "123456"]

(* C5: a freshly rendered Counter displays "0"; after exactly one click and
   the re-render it displays "1"; this holds of each rendered Counter
   whatever was clicked on the others or on instances rendered before. *)
CounterStartsAtZeroThenOne ==
    \A i \in CounterIds :
        counters[i].mounted =>
            /\ counters[i].clicks = 0 => counters[i].text = "0"
            /\ (counters[i].clicks = 1 /\ counters[i].queue = <<>>) =>
                   counters[i].text = "1"

OneClickedBesideFresh ==
    /\ counters[1].mounted /\ counters[1].clicks = 1
    /\ counters[1].queue = <<>> /\ counters[1].text = "1"
    /\ counters[2].mounted /\ counters[2].clicks = 0 /\ counters[2].text = "0"

SameInstance(i) ==
    /\ counters[i].mounted /\ counters'[i].mounted
    /\ counters'[i].clicks >= counters[i].clicks

(* C11: the displayed value is the committed count; it is n after n clicks
   each of which found the previous re-render done; under every interleaving
   of clicks and re-renders it never exceeds the number of clicks, never
   decreases, and a click (stale or not) asks for the committed count + 1. *)
CounterCountsClicks ==
    /\ [](\A i \in CounterIds :
            counters[i].mounted =>
                /\ counters[i].text = ToString(counters[i].state)
                /\ counters[i].state <= counters[i].clicks
                /\ (counters[i].fresh /\ counters[i].queue = <<>>) =>
                       counters[i].text = ToString(counters[i].clicks))
    /\ [][\A i \in CounterIds :
            SameInstance(i) =>
                /\ counters'[i].state >= counters[i].state
                /\ counters'[i].clicks = counters[i].clicks + 1 =>
                       counters'[i].queue =
                           Append(counters[i].queue, counters[i].state + 1)]_vars

FreshAndStaleClicks ==
    /\ counters[1].mounted /\ counters[1].fresh /\ counters[1].clicks = 3
    /\ counters[1].queue = <<>> /\ counters[1].text = "3"
    /\ counters[2].mounted /\ ~counters[2].fresh /\ counters[2].clicks = 2
    /\ counters[2].queue = <<>> /\ counters[2].text = "1"

Settled(p) == promises[p].state \in {"fulfilled", "rejected"}

(* C7: the promise of fetchUser(id) is pending exactly while its timer is
   armed, is fulfilled with {id, name: "Jason"} only for id = 1 and rejected
   with "User not found" only for any other id, never changes once settled,
   and (the timer being fair) always settles. *)
FetchUserSettlesOnce ==
    /\ [](\A p \in PromiseIds :
            /\ promises[p].state = "pending" <=> promises[p].timer = "armed"
            /\ promises[p].state = "fulfilled" =>
                 /\ promises[p].id = 1
                 /\ promises[p].value = [id |-> promises[p].id, name |-> "Jason"]
            /\ promises[p].state = "rejected" =>
                 /\ promises[p].id # 1
                 /\ promises[p].value = [message |-> "User not found"])
    /\ [][\A p \in PromiseIds : Settled(p) => promises'[p] = promises[p]]_vars
    /\ \A p \in PromiseIds : (promises[p].state = "pending") ~> Settled(p)

BothOutcomesSettled ==
    \E p \in PromiseIds : \E q \in PromiseIds :
        /\ promises[p].state = "fulfilled" /\ promises[p].id = 1
        /\ promises[q].state = "rejected" /\ promises[q].id = 2

----------------------------------------------------------------------------
(* Claims about the Playwright examples and the LoginPage *)

Starts == SelectSeq(pageLog, LAMBDA ev : ev.ev = "start")

Started == [i \in 1..Len(Starts) |-> <<Starts[i].op, Starts[i].target, Starts[i].value>>]

IsPrefix(s, t) == Len(s) <= Len(t) /\ \A i \in 1..Len(s) : s[i] = t[i]

SameAction(a, b) == a.op = b.op /\ a.target = b.target /\ a.value = b.value

(* C1: every promise an example has started and that is not settled yet is
   the one its body (or the LoginPage method it called) is suspended on, and
   no promise is pending once a test body has returned. *)
EveryPromiseAwaited ==
    /\ \A p \in pending :
         \/ AwaitedByBody(p)
         \/ p.by = "method" /\ call.state = "running" /\ p.at = call.mpc /\ waiting
    /\ status = "returned" => pending = {}

(* C9: the page actions of one login(email, pass) are a fill of the email
   field with email, then a fill of the password field with pass, then a
   click on Sign In, each finished before the next starts and all three done
   when login returns; the one page action of goto() is a navigation to
   "/sign-in", whatever was called before. *)
LoginPageActionsInOrder ==
    /\ \A i \in 1..Len(pageLog) :
         /\ i % 2 = 1 => pageLog[i].ev = "start"
         /\ i % 2 = 0 =>
              /\ pageLog[i].ev \in {"done", "fail"}
              /\ SameAction(pageLog[i], pageLog[i - 1])
         /\ (i > 1 /\ pageLog[i].ev = "start") => pageLog[i - 1].ev = "done"
    /\ call.method = "LoginPage.login" =>
         LET want == << <<"fill", "you@example.com", call.email>>,
                        <<"fill", "Your password", call.pass>>,
                        <<"click", "Sign In", "">> >>
         IN /\ IsPrefix(Started, want)
            /\ call.state \in {"fulfilled", "returned"} =>
                 /\ Len(Started) = 3
                 /\ Len(pageLog) = 6
    /\ call.method = "LoginPage.goto" =>
         /\ IsPrefix(Started, << <<"page.goto", "/sign-in", "">> >>)
         /\ call.state \in {"fulfilled", "returned"} => Len(pageLog) = 2

LoginReturnedAfterGoto ==
    /\ call.method = "LoginPage.login" /\ call.state = "returned"
    /\ Len(pageLog) = 6
    /\ pageLog[5].op = "click" /\ pageLog[6].ev = "done"
    /\ pc > 2 /\ body[pc - 2].op = "LoginPage.goto"

Fails == {i \in 1..Len(pageLog) : pageLog[i].ev = "fail"}

(* C10: a page action that fails inside a LoginPage method is the last
   thing the method does, the method rejects with that very error, the
   awaiting caller receives that error, and the page the LoginPage wraps is
   the one it was called with. *)
LoginPageFailurePropagates ==
    /\ \A i \in Fails :
         /\ i = Len(pageLog)
         /\ call.state \in {"rejected", "thrown"}
         /\ call.error = pageLog[i].error
    /\ call.state \in {"rejected", "thrown"} => Fails # {}
    /\ call.state = "thrown" => (status = "failed" /\ error = call.error)
    /\ call.state # "idle" => handle = call.self

EmailFillFailed ==
    /\ call.method = "LoginPage.login" /\ call.state = "thrown"
    /\ Len(pageLog) = 2
    /\ pageLog[2].ev = "fail" /\ pageLog[2].target = "you@example.com"
    /\ status = "failed" /\ error = "TimeoutError"
    /\ handle = "page"

CallbackPattern == "**/api/auth/callback*"

(* C12: in Lesson 6 the handler for "**/api/auth/callback*" is installed
   before the page navigates and before the Sign In click; every request
   the page issues that matches the pattern is answered by the handler with
   status 401 and the body {"message":"Mocked Unauthorized Error"} and not
   by the backend; a request that does not match goes to the backend. *)
RouteMocksCallback ==
    lesson = "Lesson 6" =>
        /\ navigated =>
             routes = << [pattern |-> CallbackPattern,
                          response |-> RouteHandler(CallbackPattern)] >>
        /\ \A p \in pending :
             p.step.op \in {"page.goto", "click"} => Len(routes) = 1
        /\ \A r \in requests :
             /\ GlobMatch(CallbackPattern, r.url) =>
                  /\ r.by = "route"
                  /\ r.status = 401
                  /\ r.body = "{\"message\":\"Mocked Unauthorized Error\"}"
             /\ ~GlobMatch(CallbackPattern, r.url) => r.by = "backend"

CallbackMockedOthersNot ==
    /\ lesson = "Lesson 6"
    /\ \E r \in requests :
         /\ r.url = Url(<<"api", "auth", "callback">>, "?csrf=1")
         /\ r.by = "route" /\ r.status = 401
    /\ \E r \in requests :
         /\ r.url = Url(<<"api", "auth", "callback", "credentials">>, "")
         /\ r.by = "backend"
    /\ \E p \in pending : p.step.op = "click"

(* C13: in Lesson 9 a context is created from auth.json only after this
   test has written the file: the creation starts with the file written by
   this test, and the context starts with the state the first context had
   when it was saved, whatever that context's state has become since. *)
StorageStateSavedBeforeReuse ==
    lesson = "Lesson 9" =>
        /\ \A p \in pending :
             (p.step.op = "browser.newContext" /\ p.step.value = "auth.json") =>
                 /\ authFile.exists
                 /\ authFile.writtenBy = "Lesson 9"
                 /\ authFile.content = contexts["context"].saved
        /\ \A c \in ContextNames :
             (contexts[c].created /\ contexts[c].source # "none") =>
                 /\ contexts[c].source = "Lesson 9"
                 /\ contexts[c].initial = contexts["context"].saved
        /\ contexts["adminContext"].created =>
             contexts["adminContext"].source = "Lesson 9"

SecondContextHasSavedState ==
    /\ lesson = "Lesson 9"
    /\ contexts["adminContext"].created
    /\ contexts["adminContext"].initial = "session-A"
    /\ contexts["context"].saved = "session-A"
    /\ contexts["context"].state = "session-B"

====
